---- MODULE Spec2Model ----
(***************************************************************************)
(* Expense tracker (src/main.py): one SQLite table `expenses`, three tools *)
(* (add_expense, list_expenses, summarize), the categories resource and    *)
(* init_db.  Every tool call opens its own connection; the store is the    *)
(* only shared state.                                                      *)
(*                                                                         *)
(* Strings that are only compared for equality are TLA+ strings.  Dates    *)
(* are compared by SQLite's BINARY collation, so a date is the sequence of *)
(* its characters (digits) and LexLeq is the byte-wise comparison.         *)
(* Python None / SQL NULL is the empty tuple, a present string s is <<s>>. *)
(***************************************************************************)
EXTENDS Integers, Sequences, FiniteSets

VARIABLES
    loaded,     \* the module has been imported (init_db at line 47 returned)
    schema,     \* names of the tables of the database file
    journal,    \* journal mode of the database file
    seq,        \* sqlite_sequence entry of `expenses` (AUTOINCREMENT)
    rows,       \* committed rows of `expenses`, in rowid order
    writer,     \* caller whose connection holds the write lock, or NoCaller
    pc,         \* per caller: "idle", or "inserted" (INSERT done, not committed)
    pend,       \* per caller: the uncommitted row of its connection
    ret,        \* per caller: what its last call returned
    catFile     \* categories.json beside the module

vars == <<loaded, schema, journal, seq, rows, writer, pc, pend, ret, catFile>>

----------------------------------------------------------------------------
(* Bounds and input sets *)

MaxRows == 3

None == <<>>
Some(s) == <<s>>

NoCaller == "-"
AllCallers == {"a", "b"}

NoFault == "ok"

\* "1" < "10" < "2" lexically, although 2 < 10 as numbers.
D1 == <<1>>
D10 == <<1, 0>>
D2 == <<2>>

----------------------------------------------------------------------------
(* SQLite BINARY collation on TEXT: memcmp on the common prefix, then the  *)
(* shorter string first.                                                   *)

MinOf(a, b) == IF a <= b THEN a ELSE b

LexLess(a, b) ==
    \/ /\ Len(a) < Len(b)
       /\ \A i \in 1..Len(a) : a[i] = b[i]
    \/ \E i \in 1..MinOf(Len(a), Len(b)) :
          /\ a[i] < b[i]
          /\ \A j \in 1..(i - 1) : a[j] = b[j]

LexLeq(a, b) == a = b \/ LexLess(a, b)

\* WHERE date BETWEEN ? AND ?  (BetweenOpen: the bounds left out, as
\* `date > ? AND date < ?` would)
BetweenOpen(d, lo, hi) == LexLess(lo, d) /\ LexLess(d, hi)
Between(d, lo, hi) == LexLeq(lo, d) /\ LexLeq(d, hi)

----------------------------------------------------------------------------
(* Values *)

Row(id, date, amount, category, subcategory, note) ==
    [id |-> id, date |-> date, amount |-> amount, category |-> category,
     subcategory |-> subcategory, note |-> note]

\* Python truthiness of an Optional[str]: None and "" are falsy.
Truthy(v) == v # None /\ v # Some("")

\* `x or ""`  (OrKeep: the argument passed on as it came, None as NULL)
OrKeep(v) == v
OrEmpty(v) == IF Truthy(v) THEN v ELSE Some("")

\* {"status": "error", "message": str(e)}
ErrorPayload(e) == [status |-> "error", message |-> e]

\* {"status": "success", "id": cur.lastrowid, "message": ...}
SuccessPayload(lastrowid) ==
    [status |-> "success", id |-> lastrowid,
     message |-> "Expense added successfully"]

\* What a call returned: the operation, its arguments, the number of committed
\* rows its connection saw, and the value (a "dict" payload, "rows", "groups"
\* or a "text").
Resp(op, args, kind, at, body) ==
    [op |-> op, args |-> args, kind |-> kind, at |-> at, body |-> body]
NoRet == Resp("none", <<>>, "none", 0, <<>>)

IsError(r) == r.kind = "dict" /\ r.body.status = "error"

----------------------------------------------------------------------------
(* The store *)

MaxId(tbl) ==
    IF tbl = <<>> THEN 0
    ELSE CHOOSE m \in {tbl[i].id : i \in 1..Len(tbl)} :
            \A i \in 1..Len(tbl) : tbl[i].id <= m

\* INTEGER PRIMARY KEY AUTOINCREMENT: one more than the largest rowid ever
\* used, which sqlite_sequence remembers.  (NextRowidReuse: an id taken from
\* the number of rows.)
NextRowidReuse(tbl, s) == IF Len(tbl) = 0 THEN 1 ELSE Len(tbl)
NextRowid(tbl, s) == (IF MaxId(tbl) > s THEN MaxId(tbl) ELSE s) + 1

\* INSERT INTO expenses (...) VALUES (?, ?, ?, ?, ?)
InsertedRow(tbl, s, date, amount, category, subcategory, note) ==
    Row(NextRowid(tbl, s), date, amount, category,
        OrEmpty(subcategory), OrEmpty(note))

\* db.commit(): the row of the transaction becomes part of the table.
\* (CommitRowReplace: INSERT OR REPLACE onto the newest row.)
CommitRowReplace(tbl, row) ==
    IF tbl = <<>> THEN <<row>> ELSE Append(SubSeq(tbl, 1, Len(tbl) - 1), row)
CommitRow(tbl, row) == Append(tbl, row)

\* An exception leaves `async with`: the connection is closed with its
\* transaction open, which rolls the transaction back.  (RollbackKeeps: the
\* row stays, as under autocommit.)
RollbackKeeps(tbl, row) == Append(tbl, row)
Rollback(tbl, row) == tbl

----------------------------------------------------------------------------
(* list_expenses' query *)

\* ORDER BY date DESC, id DESC: r1 comes before r2  (RowBeforeIdAsc: ORDER BY
\* date DESC, id ASC)
RowBeforeIdAsc(r1, r2) ==
    \/ LexLess(r2.date, r1.date)
    \/ r1.date = r2.date /\ r1.id < r2.id
RowBefore(r1, r2) ==
    \/ LexLess(r2.date, r1.date)
    \/ r1.date = r2.date /\ r1.id > r2.id

RECURSIVE PlaceRow(_, _)
PlaceRow(r, sorted) ==
    IF sorted = <<>> THEN <<r>>
    ELSE IF RowBefore(r, Head(sorted)) THEN <<r>> \o sorted
    ELSE <<Head(sorted)>> \o PlaceRow(r, Tail(sorted))

RECURSIVE OrderRows(_)
OrderRows(s) ==
    IF s = <<>> THEN <<>> ELSE PlaceRow(Head(s), OrderRows(Tail(s)))

ListQuery(tbl, lo, hi) ==
    OrderRows(SelectSeq(tbl, LAMBDA r : Between(r.date, lo, hi)))

\* rows = await cur.fetchall(); a failure anywhere gives the error payload
ListResponse(tbl, lo, hi, fault) ==
    IF fault = NoFault
    THEN Resp("list", <<lo, hi>>, "rows", Len(tbl), ListQuery(tbl, lo, hi))
    ELSE Resp("list", <<lo, hi>>, "dict", Len(tbl), ErrorPayload(fault))

----------------------------------------------------------------------------
(* summarize's query *)

\* WHERE date BETWEEN ? AND ? [AND category = ?]; the category condition is
\* added under `if category:`.
Where(r, lo, hi, category) ==
    /\ Between(r.date, lo, hi)
    /\ Truthy(category) => r.category = category[1]

\* SUM(amount) over the rows of a group  (SumAmountButLast: the last row of
\* the group left out)
RECURSIVE SumAmountButLast(_)
SumAmountButLast(s) ==
    IF Len(s) <= 1 THEN 0 ELSE Head(s).amount + SumAmountButLast(Tail(s))
RECURSIVE SumAmount(_)
SumAmount(s) ==
    IF s = <<>> THEN 0 ELSE Head(s).amount + SumAmount(Tail(s))

\* SELECT category, SUM(amount) AS total_amount, COUNT(*) AS count
\* ... GROUP BY category
Groups(tbl, lo, hi, category) ==
    LET sel == SelectSeq(tbl, LAMBDA r : Where(r, lo, hi, category))
        of(c) == SelectSeq(sel, LAMBDA r : r.category = c)
    IN  { [category |-> c, total_amount |-> SumAmount(of(c)),
           count |-> Len(of(c))] :
          c \in {sel[i].category : i \in 1..Len(sel)} }

\* ORDER BY total_amount DESC: SQL leaves the order of equal totals open, so
\* every arrangement with non-increasing totals is a possible result.
OrderedDescending(s) ==
    \A i \in 1..(Len(s) - 1) : s[i].total_amount >= s[i + 1].total_amount

SummarizeResults(tbl, lo, hi, category) ==
    LET g == Groups(tbl, lo, hi, category)
    IN  { s \in [1..Cardinality(g) -> g] :
            /\ \A x \in g : \E i \in 1..Cardinality(g) : s[i] = x
            /\ OrderedDescending(s) }

----------------------------------------------------------------------------
(* The categories resource *)

Fallback ==
    <<"food", "transport", "housing", "utilities", "health", "education",
      "shopping", "entertainment", "travel", "business", "misc">>

\* A text is the JSON value it encodes, or raw text that is no JSON.
JsonText(value) == [wellformed |-> TRUE, value |-> value]
RawText(chars) == [wellformed |-> FALSE, value |-> chars]

\* json.dumps({"categories": [...]}, indent=2)
FallbackText == JsonText([categories |-> Fallback])

\* categories.json: absent, a valid document, text that is no JSON, or a
\* path that exists and cannot be read.
CatFiles == {"absent", "valid", "malformed", "unreadable"}
FileContent(f) ==
    IF f = "valid" THEN JsonText([categories |-> <<"groceries", "rent">>])
    ELSE RawText("{\"categories\": [\"food\",")

ReadCategories(f) ==
    IF f = "absent" THEN Resp("categories", <<>>, "text", 0, FallbackText)
    ELSE IF f = "unreadable"
    THEN Resp("categories", <<>>, "text", 0,
              JsonText([error |-> "Permission denied"]))
    ELSE Resp("categories", <<>>, "text", 0, FileContent(f))

----------------------------------------------------------------------------
(* Storage failures.  Opening the file or running a statement can fail; a  *)
(* second writer gives up after the busy timeout; a commit can fail.       *)

OpenFaults == {"unable to open database file"}
CommitFaults == {"database or disk is full"}
Locked == "database is locked"

----------------------------------------------------------------------------
(* init_db *)

\* CREATE TABLE IF NOT EXISTS expenses (...)  (CreateTable: without IF NOT
\* EXISTS, an error when the table is there)
CreateTable(tables, name) ==
    IF name \in tables
    THEN [error |-> "table expenses already exists", tables |-> tables]
    ELSE [error |-> NoFault, tables |-> tables \cup {name}]
CreateTableIfNotExists(tables, name) ==
    [error |-> NoFault, tables |-> tables \cup {name}]

\* init_db as run by p (the import of the module in p's process).  The value
\* is "ok" or "raised"; `created` records whether the call found no table,
\* which SQLite does not report.
InitResp(status, message, created) ==
    Resp("init_db", <<>>, "init", 0,
         [status |-> status, message |-> message, created |-> created])

init_db(p, fault) ==
    /\ pc[p] = "idle"
    /\ IF fault # NoFault
       THEN /\ ret' = [ret EXCEPT ![p] = InitResp("raised", fault, FALSE)]
            /\ UNCHANGED <<loaded, schema, journal>>
       ELSE LET made == CreateTableIfNotExists(schema, "expenses") IN
            /\ journal' = "wal"
            /\ IF made.error # NoFault
               THEN /\ ret' = [ret EXCEPT ![p] =
                                   InitResp("raised", made.error, FALSE)]
                    /\ UNCHANGED <<loaded, schema>>
               ELSE /\ schema' = made.tables
                    /\ loaded' = TRUE
                    /\ ret' = [ret EXCEPT ![p] =
                                   InitResp("ok", "", "expenses" \notin schema)]
    /\ UNCHANGED <<seq, rows, writer, pc, pend, catFile>>

----------------------------------------------------------------------------
(* add_expense: the INSERT, then the commit *)

add_expense_execute(p, date, amount, category, subcategory, note, fault) ==
    LET args == <<date, amount, category, subcategory, note>> IN
    /\ loaded
    /\ pc[p] = "idle"
    /\ Len(rows) < MaxRows
    /\ IF fault # NoFault
       THEN /\ ret' = [ret EXCEPT ![p] = Resp("add", args, "dict", Len(rows),
                                              ErrorPayload(fault))]
            /\ UNCHANGED <<writer, pc, pend>>
       ELSE IF writer # NoCaller
       THEN /\ ret' = [ret EXCEPT ![p] = Resp("add", args, "dict", Len(rows),
                                              ErrorPayload(Locked))]
            /\ UNCHANGED <<writer, pc, pend>>
       ELSE /\ writer' = p
            /\ pc' = [pc EXCEPT ![p] = "inserted"]
            /\ pend' = [pend EXCEPT ![p] =
                   Some(InsertedRow(rows, seq, date, amount, category,
                                    subcategory, note))]
            /\ ret' = [ret EXCEPT ![p] = Resp("add", args, "running",
                                              Len(rows), <<>>)]
    /\ UNCHANGED <<loaded, schema, journal, seq, rows, catFile>>

add_expense_commit(p, fault) ==
    /\ pc[p] = "inserted"
    /\ writer' = NoCaller
    /\ pc' = [pc EXCEPT ![p] = "idle"]
    /\ pend' = [pend EXCEPT ![p] = None]
    /\ IF fault = NoFault
       THEN /\ rows' = CommitRow(rows, pend[p][1])
            /\ seq' = pend[p][1].id
            /\ ret' = [ret EXCEPT ![p] =
                   Resp("add", ret[p].args, "dict", Len(rows),
                        SuccessPayload(pend[p][1].id))]
       ELSE /\ rows' = Rollback(rows, pend[p][1])
            /\ seq' = seq
            /\ ret' = [ret EXCEPT ![p] =
                   Resp("add", ret[p].args, "dict", Len(rows),
                        ErrorPayload(fault))]
    /\ UNCHANGED <<loaded, schema, journal, catFile>>

----------------------------------------------------------------------------
(* list_expenses, summarize, categories: one read of the committed rows *)

list_expenses(p, start_date, end_date, fault) ==
    /\ loaded
    /\ pc[p] = "idle"
    /\ ret' = [ret EXCEPT ![p] = ListResponse(rows, start_date, end_date, fault)]
    /\ UNCHANGED <<loaded, schema, journal, seq, rows, writer, pc, pend,
                   catFile>>

summarize(p, start_date, end_date, category, fault) ==
    /\ loaded
    /\ pc[p] = "idle"
    /\ IF fault = NoFault
       THEN \E res \in SummarizeResults(rows, start_date, end_date, category) :
               ret' = [ret EXCEPT ![p] =
                   Resp("summarize", <<start_date, end_date, category>>,
                        "groups", Len(rows), res)]
       ELSE ret' = [ret EXCEPT ![p] =
                   Resp("summarize", <<start_date, end_date, category>>,
                        "dict", Len(rows), ErrorPayload(fault))]
    /\ UNCHANGED <<loaded, schema, journal, seq, rows, writer, pc, pend,
                   catFile>>

categories(p) ==
    /\ loaded
    /\ pc[p] = "idle"
    /\ ret' = [ret EXCEPT ![p] = ReadCategories(catFile)]
    /\ UNCHANGED <<loaded, schema, journal, seq, rows, writer, pc, pend,
                   catFile>>

----------------------------------------------------------------------------
(* Specifications.  Before the module is imported the database file may be *)
(* new; init_db runs at import and may run again at any time (another      *)
(* process starting on the same file).  P are the concurrent callers; D,   *)
(* A, C, S, N the values add_expense is called with and F the category     *)
(* filters of summarize.                                                   *)

InitWith(files) ==
    /\ loaded = FALSE
    /\ schema = {}
    /\ journal = "delete"
    /\ seq = 0
    /\ rows = <<>>
    /\ writer = NoCaller
    /\ pc = [p \in AllCallers |-> "idle"]
    /\ pend = [p \in AllCallers |-> None]
    /\ ret = [p \in AllCallers |-> NoRet]
    /\ catFile \in files

Step(P, D, A, C, S, N, F) ==
    \/ \E p \in P, fault \in {NoFault} \cup OpenFaults : init_db(p, fault)
    \/ \E p \in P, d \in D, a \in A, c \in C, s \in S, n \in N,
          fault \in {NoFault} \cup OpenFaults :
          add_expense_execute(p, d, a, c, s, n, fault)
    \/ \E p \in P, fault \in {NoFault} \cup CommitFaults :
          add_expense_commit(p, fault)
    \/ \E p \in P, lo \in D, hi \in D, fault \in {NoFault} \cup OpenFaults :
          list_expenses(p, lo, hi, fault)
    \/ \E p \in P, lo \in D, hi \in D, c \in F,
          fault \in {NoFault} \cup OpenFaults :
          summarize(p, lo, hi, c, fault)
    \/ \E p \in P : categories(p)

\* Two concurrent callers, every state of categories.json.
Init == InitWith(CatFiles)
Next ==
    Step(AllCallers, {D1}, {2}, {"food"}, {None, Some("x")}, {None}, {None})
Spec == Init /\ [][Next]_vars

\* One caller, dates whose lexical and numeric orders differ.
InitList == InitWith({"absent"})
NextList ==
    Step({"a"}, {D1, D10, D2}, {2}, {"food"}, {None, Some("x")}, {None},
         {None})
SpecList == InitList /\ [][NextList]_vars

\* One caller, several categories and amounts of both signs.
InitSum == InitWith({"absent"})
NextSum ==
    Step({"a"}, {D1, D2}, {-1, 2}, {"", "food"}, {None}, {None}, {None})
SpecSum == InitSum /\ [][NextSum]_vars

\* One caller, the optional arguments (subcategory, note, the category of
\* summarize) absent, empty and present.
InitOpt == InitWith({"absent"})
NextOpt ==
    Step({"a"}, {D1}, {2}, {"", "food"}, {None, Some(""), Some("x")},
         {None, Some(""), Some("n")},
         {None, Some(""), Some("food"), Some("misc")})
SpecOpt == InitOpt /\ [][NextOpt]_vars

----------------------------------------------------------------------------
(* Properties.  They are stated without the operators of the model above:  *)
(* string order by its recursive definition, sums over sets of row         *)
(* positions.                                                              *)

RECURSIVE StrLeq(_, _)
StrLeq(a, b) ==
    IF a = <<>> THEN TRUE
    ELSE IF b = <<>> THEN FALSE
    ELSE IF Head(a) # Head(b) THEN Head(a) < Head(b)
    ELSE StrLeq(Tail(a), Tail(b))

\* The committed rows the connection of response r saw: rows are only ever
\* appended, so they are the first r.at rows.
Seen(r) == SubSeq(rows, 1, r.at)

\* Positions of the rows of tbl dated within [lo, hi]
InRange(tbl, lo, hi) ==
    {i \in 1..Len(tbl) : StrLeq(lo, tbl[i].date) /\ StrLeq(tbl[i].date, hi)}

StorageFaults == OpenFaults \cup CommitFaults \cup {Locked}

\* p's response changes in this step
Changed(p) ==
    \/ ret[p].op # ret'[p].op
    \/ ret[p].kind # ret'[p].kind
    \/ ret[p].at # ret'[p].at
    \/ ret[p].args # ret'[p].args
    \/ ret[p].body # ret'[p].body

Listed(p) == ret[p].op = "list" /\ ret[p].kind = "rows"

\* C1: a list_expenses result holds exactly the stored rows dated within
\* [start_date, end_date] in string order, bounds included, each once and
\* with all six stored fields; with no such row it is the empty sequence;
\* the only other value is the error payload of a storage failure.
C1_ListExactlyRange ==
    \A p \in AllCallers :
        /\ Listed(p) =>
              LET out == ret[p].body
                  seen == Seen(ret[p])
                  hit == InRange(seen, ret[p].args[1], ret[p].args[2])
              IN  /\ \A i \in hit : \E j \in 1..Len(out) : out[j] = seen[i]
                  /\ \A j \in 1..Len(out) : \E i \in hit : out[j] = seen[i]
                  /\ \A j, k \in 1..Len(out) : j # k => out[j].id # out[k].id
                  /\ Len(out) = Cardinality(hit)
                  /\ hit = {} => out = <<>>
        /\ ret[p].op = "list" /\ ~Listed(p) =>
              /\ IsError(ret[p])
              /\ ret[p].body.message \in StorageFaults

\* Three rows stored, the range ["1", "10"] keeps some and leaves "2" out.
C1_Witness ==
    /\ Listed("a")
    /\ ret["a"].at = 3
    /\ ret["a"].args = <<D1, D10>>
    /\ Len(ret["a"].body) = 2
    /\ \E i \in 1..3 : rows[i].date = D2

\* C2: a list_expenses result is sorted by date descending (string order)
\* and, within one date, by id descending.
C2_ListSortedDateIdDesc ==
    \A p \in AllCallers :
        Listed(p) =>
            LET out == ret[p].body IN
            \A j, k \in 1..Len(out) :
                j < k =>
                    \/ out[j].date # out[k].date /\ StrLeq(out[k].date, out[j].date)
                    \/ out[j].date = out[k].date /\ out[j].id > out[k].id

\* Two rows of one date and a row of another, inserted oldest date last.
C2_Witness ==
    /\ Listed("a")
    /\ Len(ret["a"].body) = 3
    /\ ret["a"].body[1].date = D2
    /\ ret["a"].body[2].date = D10
    /\ ret["a"].body[3].date = D10
    /\ ret["a"].body[1].id = 1

Added(p) ==
    ret[p].op = "add" /\ ret[p].kind = "dict" /\ ret[p].body.status = "success"

\* C3: stored ids are pairwise distinct; an add_expense that returns success
\* appended exactly one row, the id it returns is that row's id, and that id
\* is greater than every id stored before.
C3_IdsUniqueIncreasing ==
    [][/\ \A i, j \in 1..Len(rows') : i # j => rows'[i].id # rows'[j].id
       /\ \A p \in AllCallers :
             Changed(p) /\ Added(p)' =>
                /\ Len(rows') = Len(rows) + 1
                /\ SubSeq(rows', 1, Len(rows)) = rows
                /\ rows'[Len(rows')].id = ret'[p].body.id
                /\ \A i \in 1..Len(rows) : rows[i].id < ret'[p].body.id]_vars

\* Both callers have added a row, so one of them inserted between the
\* other's calls or while the other held the write lock.
C3_Witness ==
    /\ Added("a") /\ Added("b")
    /\ ret["a"].body.id # ret["b"].body.id
    /\ Len(rows) >= 2

Summarized(p) == ret[p].op = "summarize" /\ ret[p].kind = "groups"

RECURSIVE SumAt(_, _)
SumAt(tbl, S) ==
    IF S = {} THEN 0
    ELSE LET i == CHOOSE x \in S : TRUE
         IN  tbl[i].amount + SumAt(tbl, S \ {i})

\* C4: summarize without a category gives one group per category of the rows
\* in the range, with the sum of their amounts and their number, ordered by
\* total_amount descending; nothing in the range gives the empty sequence.
C4_SummarizeGroups ==
    \A p \in AllCallers :
        Summarized(p) /\ ret[p].args[3] = None =>
            LET out == ret[p].body
                seen == Seen(ret[p])
                hit == InRange(seen, ret[p].args[1], ret[p].args[2])
                of(c) == {i \in hit : seen[i].category = c}
            IN  /\ {out[j].category : j \in 1..Len(out)}
                      = {seen[i].category : i \in hit}
                /\ \A j, k \in 1..Len(out) :
                      j # k => out[j].category # out[k].category
                /\ \A j \in 1..Len(out) :
                      /\ out[j].total_amount = SumAt(seen, of(out[j].category))
                      /\ out[j].count = Cardinality(of(out[j].category))
                /\ \A j, k \in 1..Len(out) :
                      j < k => out[j].total_amount >= out[k].total_amount
                /\ hit = {} => out = <<>>

\* Two groups, one of two rows whose total is below the other's single row.
C4_Witness ==
    /\ Summarized("a")
    /\ ret["a"].args[3] = None
    /\ Len(ret["a"].body) = 2
    /\ ret["a"].body[2].count = 2
    /\ ret["a"].body[2].total_amount = 1

\* C5: for every string passed as category, the summarize result holds only
\* the group of exactly that category, computed from the rows of the range
\* with that category, and is empty when the range has no such row.
C5_CategoryFilterEveryString ==
    \A p \in AllCallers :
        Summarized(p) /\ ret[p].args[3] # None =>
            LET out == ret[p].body
                seen == Seen(ret[p])
                c == ret[p].args[3][1]
                hit == {i \in InRange(seen, ret[p].args[1], ret[p].args[2]) :
                           seen[i].category = c}
            IN  /\ \A j \in 1..Len(out) : out[j].category = c
                /\ hit = {} => out = <<>>
                /\ hit # {} =>
                      out = <<[category |-> c, total_amount |-> SumAt(seen, hit),
                               count |-> Cardinality(hit)]>>

\* What the code does: the same, for every string but the empty one.
C5_CategoryFilterNonEmpty ==
    \A p \in AllCallers :
        Summarized(p) /\ ret[p].args[3] # None /\ ret[p].args[3] # Some("") =>
            LET out == ret[p].body
                seen == Seen(ret[p])
                c == ret[p].args[3][1]
                hit == {i \in InRange(seen, ret[p].args[1], ret[p].args[2]) :
                           seen[i].category = c}
            IN  /\ hit = {} => out = <<>>
                /\ hit # {} =>
                      out = <<[category |-> c, total_amount |-> SumAt(seen, hit),
                               count |-> Cardinality(hit)]>>

\* C6: no stored row has a null subcategory or note; an absent subcategory
\* or note is stored as the empty string and a present one as given; no row
\* of a list_expenses result has a null subcategory or note.
C6_OptionalFieldsNeverNull ==
    /\ \A i \in 1..Len(rows) :
          rows[i].subcategory # None /\ rows[i].note # None
    /\ \A p \in AllCallers :
          /\ Added(p) =>
                \E i \in 1..Len(rows) :
                    /\ rows[i].id = ret[p].body.id
                    /\ rows[i].subcategory =
                          (IF ret[p].args[4] = None THEN <<"">> ELSE ret[p].args[4])
                    /\ rows[i].note =
                          (IF ret[p].args[5] = None THEN <<"">> ELSE ret[p].args[5])
          /\ Listed(p) =>
                \A j \in 1..Len(ret[p].body) :
                    /\ ret[p].body[j].subcategory # None
                    /\ ret[p].body[j].note # None

\* An add_expense without subcategory and note has succeeded.
C6_Witness ==
    /\ Added("a")
    /\ ret["a"].args[4] = None
    /\ ret["a"].args[5] = None
    /\ \E i \in 1..Len(rows) :
          /\ rows[i].id = ret["a"].body.id
          /\ rows[i].subcategory = <<"">>
          /\ rows[i].note = <<"">>

\* C7: a call that meets a storage failure returns {status: "error",
\* message: <non-empty text>} and leaves the stored rows as they were (a
\* failed add_expense stores nothing); list_expenses and summarize return
\* the error payload or the complete result, never a part of it.
C7_FailureGivesErrorPayload ==
    [][\A p \in AllCallers :
          /\ IsError(ret'[p]) =>
                /\ ret'[p].body.message # ""
                /\ DOMAIN ret'[p].body = {"status", "message"}
                /\ Changed(p) => rows' = rows /\ seq' = seq
          /\ Changed(p) /\ ret'[p].op = "add" /\ ret'[p].kind = "dict" =>
                Added(p)' \/ IsError(ret'[p])
          /\ Changed(p) /\ ret'[p].op = "list" =>
                \/ IsError(ret'[p])
                \/ /\ ret'[p].kind = "rows"
                   /\ Len(ret'[p].body) =
                         Cardinality(InRange(rows, ret'[p].args[1],
                                             ret'[p].args[2]))
          /\ Changed(p) /\ ret'[p].op = "summarize" =>
                \/ IsError(ret'[p])
                \/ /\ ret'[p].kind = "groups"
                   /\ {ret'[p].body[j].category : j \in 1..Len(ret'[p].body)} =
                         {rows[i].category :
                            i \in InRange(rows, ret'[p].args[1],
                                          ret'[p].args[2])}]_vars

\* One caller's add_expense failed at its commit, the other's succeeded: one
\* row is stored.
C7_Witness ==
    /\ IsError(ret["a"])
    /\ ret["a"].op = "add"
    /\ ret["a"].body.message \in CommitFaults
    /\ pc["a"] = "idle"
    /\ Added("b")
    /\ Len(rows) = 1

\* C8: with categories.json absent or malformed, the categories resource
\* returns the built-in list of eleven categories under the key categories.
C8_FallbackWhenAbsentOrMalformed ==
    \A p \in AllCallers :
        ret[p].op = "categories" /\ catFile \in {"absent", "malformed"} =>
            /\ ret[p].body.wellformed
            /\ ret[p].body.value =
                  [categories |->
                      <<"food", "transport", "housing", "utilities", "health",
                        "education", "shopping", "entertainment", "travel",
                        "business", "misc">>]

\* What the code does: the built-in list when the file is absent, the text of
\* the file, whatever it holds, when it is there.
C8_FallbackWhenAbsent ==
    \A p \in AllCallers :
        ret[p].op = "categories" =>
            /\ catFile = "absent" =>
                  /\ ret[p].body.wellformed
                  /\ DOMAIN ret[p].body.value = {"categories"}
                  /\ Len(ret[p].body.value.categories) = 11
            /\ catFile = "malformed" => ~ret[p].body.wellformed

Initialized(p) == ret[p].op = "init_db"

\* C9: init_db may be called again at any point: a call that finds the table
\* does not fail unless the storage itself does, and every call leaves at
\* most the one table `expenses` (exactly that one when it returns) and
\* every stored row as it was.
C9_InitIdempotent ==
    [][\A p \in AllCallers :
          Changed(p) /\ Initialized(p)' =>
             /\ rows' = rows
             /\ seq' = seq
             /\ schema' \subseteq {"expenses"}
             /\ ret'[p].body.status = "ok" => schema' = {"expenses"}
             /\ "expenses" \in schema => schema' = schema
             /\ ret'[p].body.status = "raised" =>
                   ret'[p].body.message \in OpenFaults]_vars

\* init_db returned normally on a table that was there and held rows.
C9_Witness ==
    /\ Initialized("a")
    /\ ret["a"].body.status = "ok"
    /\ ~ret["a"].body.created
    /\ Len(rows) >= 2
    /\ schema = {"expenses"}

\* C10: a stored row keeps its id and fields for ever and rows are never
\* removed; only a committing add_expense changes the stored rows;
\* list_expenses, summarize, categories and init_db leave them as they are.
C10_RowsOnlyAppendedByAdd ==
    [][/\ Len(rows') >= Len(rows)
       /\ \A i \in 1..Len(rows) : rows'[i] = rows[i]
       /\ rows' # rows =>
             \E p \in AllCallers : pc[p] = "inserted" /\ Added(p)'
       /\ \A p \in AllCallers :
             Changed(p)
             /\ ret'[p].op \in {"list", "summarize", "categories", "init_db"}
             => rows' = rows]_vars

\* Rows were stored and then read by list_expenses, and one more was added
\* by the other caller afterwards.
C10_Witness ==
    /\ Listed("a")
    /\ ret["a"].at = 1
    /\ Len(ret["a"].body) = 1
    /\ Len(rows) = 2
    /\ ret["a"].body[1] = rows[1]
    /\ Added("b")

====
